---------------------------- MODULE Spec2Model ----------------------------
(***************************************************************************)
(* Vargen: expansion of bracketed alternative groups into text variations  *)
(* (text_variations.py) and the batch writer that runs the expansion over  *)
(* the lines of a file with a thread pool (process_files.py).              *)
(*                                                                         *)
(* A Python str is modelled as a sequence of one-character strings, a      *)
(* Python list as a sequence.  Indices are 1-based: Python index k is      *)
(* index k+1 here, and "no index" (-1, or a failed re.search) is 0 for     *)
(* re.search and NotFound for find_matching_bracket.                       *)
(***************************************************************************)
EXTENDS Integers, Sequences, FiniteSets, Bags, TLC

VARIABLES
    text,           \* the template given to generate_text_variations
    variations,     \* the list returned by generate_variations_recursive(text)
    result,         \* the list returned by generate_text_variations(text)
    calls,          \* history: each text passed to generate_variations_recursive
                    \* during the call, mapped to the list that call returned
    epc,            \* position of the engine call: "idle", "start", "expanded", "done"
    input_file,     \* the content of the input file, '\n' included
    append,         \* parameter append
    separator,      \* parameter separator
    batch_size,     \* parameter batch_size
    texts,          \* the list texts
    futures,        \* the list futures: the argument, the state and the result of each
    yielded,        \* the indices of the futures as_completed has yielded
    results_batch,  \* the list results_batch
    output_file,    \* the records (lines) of the output file, in order
    flushed,        \* history: the size of each batch written, and whether it is the remainder
    ppc             \* position of process_text_variations

evars == <<text, variations, result, calls, epc>>

pvars == <<input_file, append, separator, batch_size, texts, futures, yielded,
           results_batch, output_file, flushed, ppc>>

vars == <<evars, pvars>>

(***************************************************************************)
(* Bounds and inputs                                                       *)
(***************************************************************************)
MaxLen == 5

Alphabet == {"[", "]", "|", " ", "\t", "a", "b"}

RECURSIVE StringsUpTo(_)
StringsUpTo(n) ==
    IF n = 0 THEN {<<>>}
    ELSE LET shorter == StringsUpTo(n - 1)
         IN shorter \cup {Append(s, c) : s \in {x \in shorter : Len(x) = n - 1}, c \in Alphabet}

\* "A[x|y|z]B"
ExFlat == <<"A", "[", "x", "|", "y", "|", "z", "]", "B">>
\* "[[a|b],[c|d]|e]"
ExNested == <<"[", "[", "a", "|", "b", "]", ",", "[", "c", "|", "d", "]", "|", "e", "]">>
\* "A[bc"
ExUnbalanced == <<"A", "[", "b", "c">>
\* "[a|a]"
ExDup == <<"[", "a", "|", "a", "]">>
\* "[a|]"
ExEmptyAlt == <<"[", "a", "|", "]">>
\* "A  [x| y ] B"
ExSpaces == <<"A", " ", " ", "[", "x", "|", " ", "y", " ", "]", " ", "B">>
\* "[a|b] [[c|d]e"
ExTail == <<"[", "a", "|", "b", "]", " ", "[", "[", "c", "|", "d", "]", "e">>
\* "[a|b][c][d"
ExTail2 == <<"[", "a", "|", "b", "]", "[", "c", "]", "[", "d">>

\* "[a||[b|c]]"
ExPipes == <<"[", "a", "|", "|", "[", "b", "|", "c", "]", "]">>

Examples ==
    {ExFlat, ExNested, ExUnbalanced, ExDup, ExEmptyAlt, ExSpaces, ExTail, ExTail2, ExPipes}

Templates == StringsUpTo(MaxLen) \cup Examples

MaxLines == 2

MaxBatchSize == 3

\* "[a|b]"
LineTwo == <<"[", "a", "|", "b", "]">>
\* "[a|b][c|d]"
LineFour == <<"[", "a", "|", "b", "]", "[", "c", "|", "d", "]">>

\* The lines an input file is made of: the empty line, and lines of 2 and 4 variations.
LineSet == {<<>>, LineTwo, LineFour}

RECURSIVE LineLists(_)
LineLists(n) ==
    IF n = 0 THEN {<<>>}
    ELSE LET shorter == LineLists(n - 1)
         IN shorter \cup {Append(ls, l) : ls \in {x \in shorter : Len(x) = n - 1}, l \in LineSet}

\* The file of the lines ls, each ended by '\n', the last one only if newline_at_end.
RECURSIVE FileOf(_, _)
FileOf(ls, newline_at_end) ==
    IF ls = <<>> THEN <<>>
    ELSE IF Len(ls) = 1 THEN ls[1] \o (IF newline_at_end THEN <<"\n">> ELSE <<>>)
    ELSE ls[1] \o <<"\n">> \o FileOf(Tail(ls), newline_at_end)

InputFiles == {FileOf(ls, nl) : ls \in LineLists(MaxLines), nl \in BOOLEAN}

Separators == {<<>>, <<"-">>}

\* What the output file holds before the call.
Existing == <<[kind |-> "old", line |-> <<"o">>, from |-> 0, idx |-> 0]>>

(***************************************************************************)
(* text_variations.py                                                      *)
(***************************************************************************)
NotFound == -1

\* re.search(r'\[', current_text): the index of the leftmost '[', 0 for no match.
RECURSIVE re_search_from(_, _)
re_search_from(current_text, i) ==
    IF i > Len(current_text) THEN 0
    ELSE IF current_text[i] = "[" THEN i
    ELSE re_search_from(current_text, i + 1)

re_search(current_text) == re_search_from(current_text, 1)

\* The for loop of find_matching_bracket, at index i with the depth so far.
RECURSIVE find_matching_loop(_, _, _)
find_matching_loop(s, i, depth) ==
    IF i > Len(s) THEN NotFound
    ELSE IF s[i] = "[" THEN find_matching_loop(s, i + 1, depth + 1)
    ELSE IF s[i] = "]" THEN
        IF depth - 1 = 0 THEN i ELSE find_matching_loop(s, i + 1, depth - 1)
    ELSE find_matching_loop(s, i + 1, depth)

\* Faulty variant: the first ']' after the '[' is taken, whatever the depth.
RECURSIVE first_close_from(_, _)
first_close_from(s, i) ==
    IF i > Len(s) THEN NotFound
    ELSE IF s[i] = "]" THEN i
    ELSE first_close_from(s, i + 1)

find_matching_bracket_nodepth(s, start_index) == first_close_from(s, start_index + 1)

\* Faulty variant: a group left open is closed by the end of the text.
find_matching_bracket_implicit(s, start_index) ==
    IF find_matching_loop(s, start_index + 1, 1) = NotFound THEN Len(s) + 1
    ELSE find_matching_loop(s, start_index + 1, 1)

find_matching_bracket(s, start_index) == find_matching_loop(s, start_index + 1, 1)

\* The for loop of split_options, at index i with options, depth and start so far.
RECURSIVE split_options_loop(_, _, _, _, _)
split_options_loop(option_text, i, options, depth, start) ==
    IF i > Len(option_text)
    THEN Append(options, SubSeq(option_text, start, Len(option_text)))
    ELSE IF option_text[i] = "[" THEN split_options_loop(option_text, i + 1, options, depth + 1, start)
    ELSE IF option_text[i] = "]" THEN split_options_loop(option_text, i + 1, options, depth - 1, start)
    ELSE IF option_text[i] = "|" /\ depth = 0
    THEN split_options_loop(option_text, i + 1,
                            Append(options, SubSeq(option_text, start, i - 1)), depth, i + 1)
    ELSE split_options_loop(option_text, i + 1, options, depth, start)

\* Faulty variant: the empty alternatives are dropped.
split_options_nonempty(option_text) ==
    SelectSeq(split_options_loop(option_text, 1, <<>>, 0, 1), LAMBDA o : o # <<>>)

\* Faulty variant: every '|' splits, whatever the depth.
RECURSIVE split_every_pipe(_, _, _, _)
split_every_pipe(option_text, i, options, start) ==
    IF i > Len(option_text)
    THEN Append(options, SubSeq(option_text, start, Len(option_text)))
    ELSE IF option_text[i] = "|"
    THEN split_every_pipe(option_text, i + 1,
                          Append(options, SubSeq(option_text, start, i - 1)), i + 1)
    ELSE split_every_pipe(option_text, i + 1, options, start)

split_options_nodepth(option_text) == split_every_pipe(option_text, 1, <<>>, 1)

split_options(option_text) == split_options_loop(option_text, 1, <<>>, 0, 1)

\* Faulty variant: variant and suffix_variant are exchanged in the f-string.
with_suffixes_swapped(prefix, variant, suffix_variants) ==
    [k \in 1..Len(suffix_variants) |-> prefix \o suffix_variants[k] \o variant]

\* for suffix_variant in ...: variations.append(f"{prefix}{variant}{suffix_variant}")
with_suffixes(prefix, variant, suffix_variants) ==
    [k \in 1..Len(suffix_variants) |-> prefix \o variant \o suffix_variants[k]]

\* for variant in variants: the inner loop for each, in order, from index j.
RECURSIVE with_variants(_, _, _, _)
with_variants(prefix, variants, suffix_variants, j) ==
    IF j > Len(variants) THEN <<>>
    ELSE with_suffixes(prefix, variants[j], suffix_variants)
            \o with_variants(prefix, variants, suffix_variants, j + 1)

RECURSIVE generate_variations_recursive(_)

RECURSIVE with_options(_, _, _, _)

\* Faulty variant: an option equal to an earlier one is skipped.
with_options_unique(prefix, options, suffix, j) ==
    IF j > Len(options) THEN <<>>
    ELSE (IF \E i \in 1..(j - 1) : options[i] = options[j] THEN <<>>
          ELSE with_variants(prefix, generate_variations_recursive(options[j]),
                             generate_variations_recursive(suffix), 1))
            \o with_options(prefix, options, suffix, j + 1)

\* for option in options: the two inner loops for each, in order, from index j.
with_options(prefix, options, suffix, j) ==
    IF j > Len(options) THEN <<>>
    ELSE with_variants(prefix, generate_variations_recursive(options[j]),
                       generate_variations_recursive(suffix), 1)
            \o with_options(prefix, options, suffix, j + 1)

generate_variations_recursive(current_text) ==
    LET start_index == re_search(current_text)
        end_index == find_matching_bracket(current_text, start_index)
        prefix == SubSeq(current_text, 1, start_index - 1)
        suffix == SubSeq(current_text, end_index + 1, Len(current_text))
        options == split_options(SubSeq(current_text, start_index + 1, end_index - 1))
    IN  IF start_index = 0 THEN <<current_text>>
        ELSE IF end_index = NotFound THEN <<current_text>>
        ELSE with_options(prefix, options, suffix, 1)

\* The arguments of every call of generate_variations_recursive made for current_text,
\* the call for current_text included.
RECURSIVE recursive_calls(_)
recursive_calls(current_text) ==
    LET start_index == re_search(current_text)
        end_index == find_matching_bracket(current_text, start_index)
        suffix == SubSeq(current_text, end_index + 1, Len(current_text))
        options == split_options(SubSeq(current_text, start_index + 1, end_index - 1))
    IN  IF start_index = 0 \/ end_index = NotFound THEN {current_text}
        ELSE {current_text} \cup recursive_calls(suffix)
                \cup UNION {recursive_calls(options[j]) : j \in 1..Len(options)}

\* re.sub(' +', ' ', variation): every maximal run of spaces becomes one space.
RECURSIVE re_sub_spaces(_)
re_sub_spaces(s) ==
    IF s = <<>> THEN <<>>
    ELSE IF Head(s) = " " /\ Len(s) > 1 /\ s[2] = " " THEN re_sub_spaces(Tail(s))
    ELSE <<Head(s)>> \o re_sub_spaces(Tail(s))

\* The characters of the alphabet str.strip() removes.
Whitespace == {" ", "\t"}

RECURSIVE lstrip(_)
lstrip(s) == IF s # <<>> /\ Head(s) \in Whitespace THEN lstrip(Tail(s)) ELSE s

RECURSIVE rstrip(_)
rstrip(s) ==
    IF s # <<>> /\ s[Len(s)] \in Whitespace THEN rstrip(SubSeq(s, 1, Len(s) - 1)) ELSE s

strip(s) == rstrip(lstrip(s))

\* Faulty variant: the runs of spaces are collapsed and the ends are left as they are.
normalise_unstripped(variation) == re_sub_spaces(variation)

\* re.sub(' +', ' ', variation).strip()
normalise(variation) == strip(re_sub_spaces(variation))

generate_text_variations(t) ==
    LET vs == generate_variations_recursive(t)
    IN  [k \in 1..Len(vs) |-> normalise(vs[k])]

(***************************************************************************)
(* One call of generate_text_variations                                    *)
(***************************************************************************)
EngineInit ==
    /\ text \in Templates
    /\ variations = <<>>
    /\ result = <<>>
    /\ calls = <<>>
    /\ epc = "start"

\* generate_variations_recursive(text), the argument of the comprehension of line 165
Expand ==
    /\ epc = "start"
    /\ variations' = generate_variations_recursive(text)
    /\ calls' = [c \in recursive_calls(text) |-> generate_variations_recursive(c)]
    /\ epc' = "expanded"
    /\ UNCHANGED <<text, result>>
    /\ UNCHANGED pvars

\* the comprehension of line 165 and the return
Normalise ==
    /\ epc = "expanded"
    /\ result' = [k \in 1..Len(variations) |-> normalise(variations[k])]
    /\ epc' = "done"
    /\ UNCHANGED <<text, variations, calls>>
    /\ UNCHANGED pvars

(***************************************************************************)
(* process_files.py                                                        *)
(***************************************************************************)
\* str.splitlines() at index i, with the lines so far and the line being read.
RECURSIVE splitlines_loop(_, _, _, _)
splitlines_loop(content, i, lines, current) ==
    IF i > Len(content)
    THEN IF current = <<>> THEN lines ELSE Append(lines, current)
    ELSE IF content[i] = "\n" THEN splitlines_loop(content, i + 1, Append(lines, current), <<>>)
    ELSE splitlines_loop(content, i + 1, lines, Append(current, content[i]))

splitlines(content) == splitlines_loop(content, 1, <<>>, <<>>)

\* Faulty variant: the empty lines are left out.
submitted_texts_nonempty(ts) == SelectSeq(ts, LAMBDA t : t # <<>>)

\* [... for text in texts]: the arguments of the tasks submitted, in order.
submitted_texts(ts) == ts

\* Faulty variant: the batch is written only when its size is batch_size exactly.
threshold_met_exactly(batch, size) == Len(batch) = size

\* len(results_batch) >= batch_size
threshold_met(batch, size) == Len(batch) >= size

\* Faulty variant: the batch is written from its last variation to its first.
write_batch_reversed(batch) == [k \in 1..Len(batch) |-> batch[Len(batch) + 1 - k]]

\* output_file.write(variation + '\n') for each variation of the batch, in order.
write_batch(batch) == batch

\* if separator: output_file.write(separator + '\n')
write_separator(sep) ==
    IF sep # <<>> THEN <<[kind |-> "separator", line |-> sep, from |-> 0, idx |-> 0]>>
    ELSE <<>>

\* Faulty variant: what is left in the batch after the loop is not written.
write_remainder_missing(batch, sep) == <<>>

\* The remainder written after the loop, and the separator if there is a remainder.
write_remainder(batch, sep) ==
    write_batch(batch) \o (IF sep # <<>> /\ batch # <<>> THEN write_separator(sep) ELSE <<>>)

\* future.result() of future i, each variation tagged with where it comes from.
future_result(i) ==
    [k \in 1..Len(futures[i].result) |->
        [kind |-> "variation", line |-> futures[i].result[k], from |-> i, idx |-> k]]

ProcInit ==
    /\ input_file \in InputFiles
    /\ append \in BOOLEAN
    /\ separator \in Separators
    /\ batch_size \in 0..MaxBatchSize
    /\ texts = <<>>
    /\ futures = <<>>
    /\ yielded = {}
    /\ results_batch = <<>>
    /\ output_file = Existing
    /\ flushed = <<>>
    /\ ppc = "read"

\* texts = input_file.read().splitlines()
ReadInput ==
    /\ ppc = "read"
    /\ texts' = splitlines(input_file)
    /\ ppc' = "open"
    /\ UNCHANGED <<input_file, append, separator, batch_size, futures, yielded,
                   results_batch, output_file, flushed>>
    /\ UNCHANGED evars

\* open(output_filename, file_mode): mode 'w' empties the file, mode 'a' keeps it.
OpenOutput ==
    /\ ppc = "open"
    /\ output_file' = IF append THEN output_file ELSE <<>>
    /\ ppc' = "submit"
    /\ UNCHANGED <<input_file, append, separator, batch_size, texts, futures, yielded,
                   results_batch, flushed>>
    /\ UNCHANGED evars

\* executor.submit(generate_text_variations, text) for the next text
Submit ==
    /\ ppc = "submit"
    /\ Len(futures) < Len(submitted_texts(texts))
    /\ futures' = Append(futures,
                         [arg |-> submitted_texts(texts)[Len(futures) + 1],
                          state |-> "pending", result |-> <<>>])
    /\ UNCHANGED <<input_file, append, separator, batch_size, texts, yielded,
                   results_batch, output_file, flushed, ppc>>
    /\ UNCHANGED evars

\* The comprehension is over: results_batch = [] and the loop over as_completed begins.
StartLoop ==
    /\ ppc = "submit"
    /\ Len(futures) = Len(submitted_texts(texts))
    /\ results_batch' = <<>>
    /\ ppc' = "loop"
    /\ UNCHANGED <<input_file, append, separator, batch_size, texts, futures, yielded,
                   output_file, flushed>>
    /\ UNCHANGED evars

\* A worker thread runs task i to its end: the future holds the returned list.
RunTask(i) ==
    /\ futures[i].state = "pending"
    /\ futures' = [futures EXCEPT ![i] = [arg |-> @.arg, state |-> "finished",
                                          result |-> generate_text_variations(@.arg)]]
    /\ UNCHANGED <<input_file, append, separator, batch_size, texts, yielded,
                   results_batch, output_file, flushed, ppc>>
    /\ UNCHANGED evars

\* One iteration of the loop: as_completed yields the finished future i.
Consume(i) ==
    /\ ppc = "loop"
    /\ futures[i].state = "finished"
    /\ i \notin yielded
    /\ yielded' = yielded \cup {i}
    /\ LET extended == results_batch \o future_result(i)
       IN  IF threshold_met(extended, batch_size)
           THEN /\ output_file' = output_file \o write_batch(extended) \o write_separator(separator)
                /\ flushed' = Append(flushed, [size |-> Len(extended), remainder |-> FALSE])
                /\ results_batch' = <<>>
           ELSE /\ results_batch' = extended
                /\ UNCHANGED <<output_file, flushed>>
    /\ UNCHANGED <<input_file, append, separator, batch_size, texts, futures, ppc>>
    /\ UNCHANGED evars

\* Every future has been yielded: the remainder is written, the file is closed and
\* the function returns.
Finish ==
    /\ ppc = "loop"
    /\ yielded = 1..Len(futures)
    /\ output_file' = output_file \o write_remainder(results_batch, separator)
    /\ flushed' = IF results_batch # <<>>
                  THEN Append(flushed, [size |-> Len(results_batch), remainder |-> TRUE])
                  ELSE flushed
    /\ ppc' = "done"
    /\ UNCHANGED <<input_file, append, separator, batch_size, texts, futures, yielded,
                   results_batch>>
    /\ UNCHANGED evars

EngineIdle ==
    /\ text = <<>>
    /\ variations = <<>>
    /\ result = <<>>
    /\ calls = <<>>
    /\ epc = "idle"

ProcIdle ==
    /\ input_file = <<>>
    /\ append = FALSE
    /\ separator = <<>>
    /\ batch_size = 1
    /\ texts = <<>>
    /\ futures = <<>>
    /\ yielded = {}
    /\ results_batch = <<>>
    /\ output_file = <<>>
    /\ flushed = <<>>
    /\ ppc = "idle"

(***************************************************************************)
(* Specifications                                                          *)
(***************************************************************************)
\* One call of generate_text_variations on a template.
Init == EngineInit /\ ProcIdle

Next ==
    \/ Expand
    \/ Normalise

Spec == Init /\ [][Next]_vars

\* One call of process_text_variations: the main thread and the pool's workers.
InitProc == ProcInit /\ EngineIdle

MainStep ==
    \/ ReadInput
    \/ OpenOutput
    \/ Submit
    \/ StartLoop
    \/ \E i \in 1..Len(futures) : Consume(i)
    \/ Finish

NextProc ==
    \/ ReadInput
    \/ OpenOutput
    \/ Submit
    \/ StartLoop
    \/ \E i \in 1..Len(futures) : RunTask(i)
    \/ \E i \in 1..Len(futures) : Consume(i)
    \/ Finish

SpecProc == InitProc /\ [][NextProc]_vars

\* The main thread is never suspended for ever: a step it can take, it takes.
\* Nothing is assumed of the workers.
FairSpecProc == SpecProc /\ WF_vars(MainStep)

(***************************************************************************)
(* The notions the properties are stated in, defined by position and       *)
(* bracket count rather than by the loops of the code                      *)
(***************************************************************************)
\* The number of '[' less the number of ']' among s[i..j].
Balance(s, i, j) ==
    Cardinality({k \in i..j : s[k] = "["}) - Cardinality({k \in i..j : s[k] = "]"})

Min(S) == CHOOSE x \in S : \A y \in S : x <= y

Opens(s) == {i \in 1..Len(s) : s[i] = "["}

\* The position of the leftmost '[' of s, 0 when s has none.
LeftmostOpen(s) == IF Opens(s) = {} THEN 0 ELSE Min(Opens(s))

\* The positions after the '[' at i where the depth is back to zero.
Closers(s, i) == {j \in (i + 1)..Len(s) : Balance(s, i, j) = 0}

\* The position of the ']' matching the '[' at i, 0 when there is none.
MatchingClose(s, i) == IF Closers(s, i) = {} THEN 0 ELSE Min(Closers(s, i))

\* The leftmost '[' of s has no matching ']'.
Unterminated(s) == LeftmostOpen(s) # 0 /\ MatchingClose(s, LeftmostOpen(s)) = 0

\* The leftmost '[' of s has a matching ']': s starts with a well-formed group.
WellFormedGroup(s) == LeftmostOpen(s) # 0 /\ MatchingClose(s, LeftmostOpen(s)) # 0

PrefixOf(s) == SubSeq(s, 1, LeftmostOpen(s) - 1)

BodyOf(s) == SubSeq(s, LeftmostOpen(s) + 1, MatchingClose(s, LeftmostOpen(s)) - 1)

SuffixOf(s) == SubSeq(s, MatchingClose(s, LeftmostOpen(s)) + 1, Len(s))

\* The positions of the '|' of body that are at depth 0 relative to body.
Cuts(body) == {p \in 1..Len(body) : body[p] = "|" /\ Balance(body, 1, p - 1) = 0}

\* The k-th cut of body in increasing order; 0 before the first, Len + 1 after the last.
Cut(body, k) ==
    IF k = 0 THEN 0
    ELSE IF k > Cardinality(Cuts(body)) THEN Len(body) + 1
    ELSE CHOOSE p \in Cuts(body) : Cardinality({q \in Cuts(body) : q < p}) = k - 1

\* The alternatives of body: the segments between consecutive cuts.
Alternatives(body) ==
    [k \in 1..(Cardinality(Cuts(body)) + 1) |->
        SubSeq(body, Cut(body, k - 1) + 1, Cut(body, k) - 1)]

RECURSIVE Flatten(_)
Flatten(seqs) == IF seqs = <<>> THEN <<>> ELSE Head(seqs) \o Flatten(Tail(seqs))

RECURSIVE JoinPipe(_)
JoinPipe(seqs) ==
    IF Len(seqs) = 0 THEN <<>>
    ELSE IF Len(seqs) = 1 THEN seqs[1]
    ELSE seqs[1] \o <<"|">> \o JoinPipe(Tail(seqs))

\* The reference expansion: prefix + v + s for each alternative of the leftmost
\* group in index order, then each v of its expansion, then each s of the suffix's.
RECURSIVE R(_)
R(t) ==
    IF ~WellFormedGroup(t) THEN <<t>>
    ELSE LET alts == Alternatives(BodyOf(t))
             rs == R(SuffixOf(t))
         IN  Flatten([a \in 1..Len(alts) |->
                 LET ra == R(alts[a])
                 IN  Flatten([v \in 1..Len(ra) |->
                         [s \in 1..Len(rs) |-> PrefixOf(t) \o ra[v] \o rs[s]]])])

\* The number of expansions of t, counted without building them.
RECURSIVE SumN(_, _)
RECURSIVE N(_)
SumN(alts, k) == IF k > Len(alts) THEN 0 ELSE N(alts[k]) + SumN(alts, k + 1)

N(t) ==
    IF ~WellFormedGroup(t) THEN 1
    ELSE SumN(Alternatives(BodyOf(t)), 1) * N(SuffixOf(t))

\* Every prefix of s has at least as many '[' as ']' and the totals are equal.
Balanced(s) ==
    /\ \A k \in 1..Len(s) : Balance(s, 1, k) >= 0
    /\ Balance(s, 1, Len(s)) = 0

HasBracket(s) == \E k \in 1..Len(s) : s[k] \in {"[", "]"}

EndsWith(s, tail) ==
    Len(s) >= Len(tail) /\ SubSeq(s, Len(s) - Len(tail) + 1, Len(s)) = tail

\* The places k where text is a balanced head with at least one group followed
\* by a tail whose leftmost '[' is unterminated.
TailSplits(t) ==
    {k \in 1..Len(t) :
        /\ Balanced(SubSeq(t, 1, k))
        /\ Opens(SubSeq(t, 1, k)) # {}
        /\ Unterminated(SubSeq(t, k + 1, Len(t)))}

(***************************************************************************)
(* Properties of the expansion engine                                      *)
(***************************************************************************)
\* C1: a text whose leftmost '[' has no matching ']' expands to itself alone (at
\* every level of the recursion, so inner groups of the tail stay unexpanded), and
\* when such a text follows well-formed groups, the groups before it are expanded
\* as they are without it and each variation is such an expansion followed by the
\* literal tail, the returned one being its whitespace normalisation.
C1_UnterminatedLiteral ==
    epc # "start" =>
        /\ \A c \in DOMAIN calls : Unterminated(c) => calls[c] = <<c>>
        /\ Unterminated(text) => variations = <<text>>
        /\ epc = "done" /\ Unterminated(text) => result = <<normalise(text)>>
        /\ \A k \in TailSplits(text) :
            LET head == SubSeq(text, 1, k)
                tail == SubSeq(text, k + 1, Len(text))
            IN  /\ variations = [i \in 1..Len(R(head)) |-> R(head)[i] \o tail]
                /\ \A i \in 1..Len(variations) : EndsWith(variations[i], tail)
                /\ epc = "done" =>
                    result = [i \in 1..Len(R(head)) |-> normalise(R(head)[i] \o tail)]

C1_Witness ==
    /\ epc = "done"
    /\ text = ExTail
    /\ TailSplits(text) # {}
    /\ Len(result) = 2
    /\ \E c \in DOMAIN calls :
        /\ Unterminated(c)
        /\ \E k \in 1..Len(c) : WellFormedGroup(SubSeq(c, k, Len(c)))
        /\ calls[c] = <<c>>

\* C2 as stated: "A[bc" gives exactly ["Abc"].
C2_Original ==
    (epc = "done" /\ text = ExUnbalanced) => result = <<<<"A", "b", "c">>>>

\* C2 as amended: "A[bc" gives exactly the one-element list ["A[bc"]: the
\* unmatched '[' is kept.
C2_UnbalancedKeepsBracket ==
    (epc = "done" /\ text = ExUnbalanced) => result = <<<<"A", "[", "b", "c">>>>

C2_Witness == epc = "done" /\ text = ExUnbalanced /\ Len(result) = 1

\* C3: the returned list is, element for element and in order, the whitespace
\* normalisation of the reference expansion R(text), which the unnormalised list
\* equals; "A[x|y|z]B" gives "AxB", "AyB", "AzB" in that order.
C3_OrderedExpansion ==
    /\ epc # "start" => variations = R(text)
    /\ epc = "done" =>
        /\ result = [k \in 1..Len(R(text)) |-> normalise(R(text)[k])]
        /\ text = ExFlat => result = << <<"A", "x", "B">>, <<"A", "y", "B">>, <<"A", "z", "B">> >>
        /\ text = <<>> => result = << <<>> >>
        /\ text = <<"a", "|", "b">> => result = <<text>>

C3_Witness ==
    /\ epc = "done"
    /\ text = ExNested
    /\ result = << <<"a", ",", "c">>, <<"a", ",", "d">>, <<"b", ",", "c">>,
                   <<"b", ",", "d">>, <<"e">> >>

\* C4: for a text whose leftmost group is well-formed, the number of variations is
\* the sum of the alternatives' numbers of expansions times the suffix's number of
\* expansions, at every level of the recursion and for the returned list;
\* "[[a|b],[c|d]|e]" gives 5 and "[a|a]" gives 2.
C4_Count ==
    epc # "start" =>
        /\ \A c \in DOMAIN calls :
            WellFormedGroup(c) =>
                Len(calls[c]) = SumN(Alternatives(BodyOf(c)), 1) * N(SuffixOf(c))
        /\ Len(variations) = N(text)
        /\ epc = "done" =>
            /\ Len(result) = N(text)
            /\ text = ExNested => Len(result) = 5
            /\ text = ExDup => result = << <<"a">>, <<"a">> >>

C4_Witness ==
    /\ epc = "done"
    /\ text = ExNested
    /\ Len(result) = 5
    /\ \E c \in DOMAIN calls :
        /\ WellFormedGroup(c)
        /\ Len(Alternatives(BodyOf(c))) = 2
        /\ N(SuffixOf(c)) = 2
        /\ Len(calls[c]) = 4

\* C5: every returned variation has no two consecutive spaces, neither starts nor
\* ends with whitespace, and is left unchanged by the normalisation.
C5_Normalised ==
    epc = "done" =>
        \A k \in 1..Len(result) :
            LET v == result[k]
            IN  /\ \A i \in 1..(Len(v) - 1) : ~(v[i] = " " /\ v[i + 1] = " ")
                /\ v # <<>> => v[1] \notin Whitespace /\ v[Len(v)] \notin Whitespace
                /\ normalise(v) = v

C5_Witness ==
    /\ epc = "done"
    /\ text = ExSpaces
    /\ \E k \in 1..Len(result) : result[k] # variations[k]

\* The bodies of the well-formed leftmost groups met during the call.
Bodies == {BodyOf(c) : c \in {x \in DOMAIN calls : WellFormedGroup(x)}}

\* C6: split_options cuts a group body exactly at its depth-0 '|': n such pipes
\* give n + 1 alternatives, the segments between them in order, empty ones kept,
\* and joining them with '|' gives the body back; "[a|]" gives "a" then "".
C6_Split ==
    /\ epc # "start" =>
        \A b \in Bodies :
            LET opts == split_options(b)
            IN  /\ Len(opts) = Cardinality(Cuts(b)) + 1
                /\ opts = Alternatives(b)
                /\ JoinPipe(opts) = b
                /\ \A k \in 1..Len(opts) : opts[k] \in DOMAIN calls
    /\ (epc = "done" /\ text = ExEmptyAlt) => result = << <<"a">>, <<>> >>

C6_Witness ==
    /\ epc = "done"
    /\ \E b \in Bodies :
        /\ Cardinality(Cuts(b)) = 2
        /\ \E p \in 1..Len(b) : b[p] = "|" /\ p \notin Cuts(b)
        /\ <<>> \in {split_options(b)[k] : k \in 1..3}

\* C10: for a balanced template no returned variation contains '[' or ']', and
\* every text passed to a recursive expansion step is balanced.
C10_BalancedLiteral ==
    (epc # "start" /\ Balanced(text)) =>
        /\ \A c \in DOMAIN calls : Balanced(c)
        /\ \A k \in 1..Len(variations) : ~HasBracket(variations[k])
        /\ epc = "done" => \A k \in 1..Len(result) : ~HasBracket(result[k])

C10_Witness ==
    /\ epc = "done"
    /\ text = ExNested
    /\ Balanced(text)
    /\ Cardinality(DOMAIN calls) > 5

(***************************************************************************)
(* Properties of process_text_variations                                   *)
(***************************************************************************)
\* The positions of the '\n' of the file f.
Newlines(f) == {p \in 1..Len(f) : f[p] = "\n"}

\* The k-th '\n' of f; 0 before the first, Len + 1 after the last.
Newline(f, k) ==
    IF k = 0 THEN 0
    ELSE IF k > Cardinality(Newlines(f)) THEN Len(f) + 1
    ELSE CHOOSE p \in Newlines(f) : Cardinality({q \in Newlines(f) : q < p}) = k - 1

\* The number of lines of f: one for each '\n', and one more for what follows the
\* last '\n' if anything does.
LineCount(f) ==
    Cardinality(Newlines(f))
        + (IF Newline(f, Cardinality(Newlines(f))) < Len(f) THEN 1 ELSE 0)

\* The k-th line of f, without its '\n'.
InputLine(f, k) == SubSeq(f, Newline(f, k - 1) + 1, Newline(f, k) - 1)

InputLines(f) == [k \in 1..LineCount(f) |-> InputLine(f, k)]

\* The positions of the output file that hold variation k of input line i.
WrittenAt(i, k) ==
    {p \in 1..Len(output_file) :
        /\ output_file[p].kind = "variation"
        /\ output_file[p].from = i
        /\ output_file[p].idx = k}

VariationRecords == {p \in 1..Len(output_file) : output_file[p].kind = "variation"}

AllTasksCompleted ==
    /\ ppc \in {"submit", "loop"}
    /\ Len(futures) = Len(texts)
    /\ \A i \in 1..Len(futures) : futures[i].state = "finished"

\* Once the function has finished, every variation of every input line is in the
\* output exactly once, as a record of its own, and no other variation record is.
NothingLostOrDuplicated ==
    ppc = "done" =>
        /\ texts = InputLines(input_file)
        /\ \A i \in 1..Len(texts) :
            \A k \in 1..Len(generate_text_variations(texts[i])) :
                /\ Cardinality(WrittenAt(i, k)) = 1
                /\ \A p \in WrittenAt(i, k) :
                    output_file[p].line = generate_text_variations(texts[i])[k]
        /\ \A p \in VariationRecords :
            /\ output_file[p].from \in 1..Len(texts)
            /\ output_file[p].idx \in
                1..Len(generate_text_variations(texts[output_file[p].from]))
        /\ results_batch # <<>> =>
            \A j \in 1..Len(results_batch) :
                \E p \in VariationRecords : output_file[p] = results_batch[j]

\* C7: for every order of completion, when the function has finished the output
\* holds exactly the variations of each input line, each once and as its own
\* record, the remainder included; and once every task has completed the function
\* does finish.
C7_ExactOutput ==
    /\ []NothingLostOrDuplicated
    /\ AllTasksCompleted ~> (ppc = "done")

C7_Witness ==
    /\ ppc = "done"
    /\ Len(texts) = 2
    /\ Len(flushed) = 2
    /\ flushed[2].remainder
    /\ flushed[2].size < batch_size
    /\ futures[1].result # futures[2].result

\* The numbers of variation records between the separator records of the part of
\* the file written by this call, when a separator is given.
SeparatorAt == {p \in 1..Len(output_file) : output_file[p].kind = "separator"}

SeparatorPos(k) ==
    IF k = 0 THEN Cardinality({p \in 1..Len(output_file) : output_file[p].kind = "old"})
    ELSE CHOOSE p \in SeparatorAt : Cardinality({q \in SeparatorAt : q < p}) = k - 1

RunSizes ==
    [k \in 1..Cardinality(SeparatorAt) |-> SeparatorPos(k) - SeparatorPos(k - 1) - 1]

\* C8 as stated: every batch before the remainder holds exactly batch_size
\* variations, and the remainder at most batch_size.
C8_Original ==
    \A b \in 1..Len(flushed) :
        /\ ~flushed[b].remainder => flushed[b].size = batch_size
        /\ flushed[b].remainder => flushed[b].size <= batch_size

\* C8 as amended: every batch before the remainder holds at least batch_size
\* variations, and the remainder at most batch_size; with a separator, the batches
\* are the runs of variations the separators end in the file.
C8_BatchAtLeast ==
    /\ \A b \in 1..Len(flushed) :
        /\ ~flushed[b].remainder => flushed[b].size >= batch_size
        /\ flushed[b].remainder => flushed[b].size <= batch_size /\ b = Len(flushed)
    /\ (separator # <<>> /\ ppc \in {"loop", "done"}) =>
        RunSizes = [b \in 1..Len(flushed) |-> flushed[b].size]

C8_Witness ==
    /\ ppc = "done"
    /\ separator # <<>>
    /\ Len(flushed) = 2
    /\ flushed[1].size > batch_size
    /\ flushed[2].remainder

\* C9 as stated: an empty input line is not given to generate_text_variations and
\* gives no record of the output.
C9_Original ==
    /\ \A i \in 1..Len(futures) : futures[i].arg # <<>>
    /\ \A p \in VariationRecords : texts[output_file[p].from] # <<>>

\* C9 as amended: every input line, the empty ones included, is given to
\* generate_text_variations, in the order of the file; an empty line gives exactly
\* one record of the output, an empty line.
C9_EveryLineFed ==
    /\ ppc # "read" => texts = InputLines(input_file)
    /\ Len(futures) <= LineCount(input_file)
    /\ \A i \in 1..Len(futures) : futures[i].arg = InputLine(input_file, i)
    /\ ppc \in {"loop", "done"} => Len(futures) = LineCount(input_file)
    /\ ppc = "done" =>
        \A i \in 1..LineCount(input_file) :
            InputLine(input_file, i) = <<>> =>
                /\ futures[i].result = << <<>> >>
                /\ Cardinality({p \in VariationRecords : output_file[p].from = i}) = 1
                /\ \A p \in VariationRecords :
                    output_file[p].from = i => output_file[p].line = <<>>

C9_Witness ==
    /\ ppc = "done"
    /\ Len(texts) = 2
    /\ texts[1] = <<>>
    /\ texts[2] # <<>>
    /\ \E p \in VariationRecords : output_file[p].from = 1 /\ output_file[p].line = <<>>

\* The positions of the output file that hold a variation of input line i.
WrittenFrom(i) == {p \in VariationRecords : output_file[p].from = i}

\* The positions of results_batch that hold a variation of input line i.
BatchedFrom(i) == {j \in 1..Len(results_batch) : results_batch[j].from = i}

\* The number of variation records of the output file up to position p.
VariationRank(p) == Cardinality({q \in VariationRecords : q <= p})

RECURSIVE FlushedUpTo(_)
FlushedUpTo(b) == IF b = 0 THEN 0 ELSE flushed[b].size + FlushedUpTo(b - 1)

\* The batches whose last variation is at or after the variation record at p; the
\* least of them is the batch the record was written in.
BatchesFrom(p) == {b \in 1..Len(flushed) : FlushedUpTo(b) >= VariationRank(p)}

\* The records rs[first + 1 .. first + n] are the variations of line i, in the
\* order generate_text_variations returns them.
BlockAt(rs, first, i) ==
    LET vs == generate_text_variations(texts[i])
    IN  /\ first + Len(vs) <= Len(rs)
        /\ \A k \in 1..Len(vs) :
            /\ rs[first + k].kind = "variation"
            /\ rs[first + k].from = i
            /\ rs[first + k].idx = k
            /\ rs[first + k].line = vs[k]

\* C11: under every order of completion the variations of one input line are in
\* the output file as one block of consecutive records, in the order
\* generate_text_variations returns them: no record of another line and no
\* separator record is among them, and all are in the same batch.  The same holds
\* of the batch being accumulated, and a yielded line is whole in one of the two.
C11_ContiguousBlocks ==
    \A i \in 1..Len(futures) :
        LET n == Len(generate_text_variations(texts[i]))
        IN  /\ WrittenFrom(i) # {} =>
                /\ Cardinality(WrittenFrom(i)) = n
                /\ BlockAt(output_file, Min(WrittenFrom(i)) - 1, i)
                /\ \A p \in WrittenFrom(i) : BatchesFrom(p) # {}
                /\ \A p, q \in WrittenFrom(i) :
                    BatchesFrom(p) # {} /\ BatchesFrom(q) # {} =>
                        Min(BatchesFrom(p)) = Min(BatchesFrom(q))
            /\ BatchedFrom(i) # {} =>
                /\ Cardinality(BatchedFrom(i)) = n
                /\ BlockAt(results_batch, Min(BatchedFrom(i)) - 1, i)
            /\ (i \in yielded /\ ppc = "loop") => (WrittenFrom(i) # {}) # (BatchedFrom(i) # {})
            /\ i \notin yielded => WrittenFrom(i) = {} /\ BatchedFrom(i) = {}
            /\ ppc = "done" => WrittenFrom(i) # {}

C11_Witness ==
    /\ ppc = "done"
    /\ separator # <<>>
    /\ Len(texts) = 2
    /\ Len(generate_text_variations(texts[1])) > 1
    /\ Len(generate_text_variations(texts[2])) > 1
    /\ WrittenFrom(1) # {} /\ WrittenFrom(2) # {}
    /\ Min(WrittenFrom(2)) < Min(WrittenFrom(1))
    /\ Len(flushed) = 1
    /\ flushed[1].size > batch_size

=============================================================================
